---- MODULE Spec2Model ----
(***************************************************************************)
(* Model of KC-New-Restaurants.                                            *)
(*   - the record store: DatabaseManager (services/database_manager.py),   *)
(*     which keeps a MongoDB collection and a SQLite table behind one      *)
(*     insert / find / count / delete interface (specification Spec);      *)
(*   - the rating predictor: RestaurantAIPredictor                         *)
(*     (services/ai_predictor.py) (specification SpecPredictor);           *)
(*   - the pipeline: KCRestaurant.process with its place lookup            *)
(*     (services/google_places_client.py) (specification SpecPipeline);    *)
(*   - the retry policy and the rate limiter of the place lookups          *)
(*     (utils/retry_utils.py) (specifications SpecRetry, SpecLimiter).     *)
(***************************************************************************)
EXTENDS Integers, Sequences, FiniteSets, TLC

VARIABLES mongodb_available, sqlite_available, unique_index, mongo, sqlite, last,
          collection, restaurants, prediction,
          csv_rows, run,
          wrapped, limiter

\* the record store
storeVars == <<mongodb_available, sqlite_available, unique_index, mongo, sqlite, last>>
\* the predictor: its store handle, the restaurants the store holds, and the
\* prediction that has just been returned
predictorVars == <<collection, restaurants, prediction>>
\* the pipeline: its input and the position of the run
pipelineVars == <<csv_rows, run>>
\* the retry policy: the wrapped call under way, and the rate limiter of a
\* decorated function with its clock
retryVars == <<wrapped, limiter>>

vars == <<mongodb_available, sqlite_available, unique_index, mongo, sqlite, last,
          collection, restaurants, prediction, csv_rows, run, wrapped, limiter>>

(***************************************************************************)
(* Bounds                                                                  *)
(***************************************************************************)
\* largest number of documents a backend holds
MaxDocs == 2
\* largest limit passed to find
MaxLimit == 1

(***************************************************************************)
(* Values.  A document field is absent, None, a string, a number, a        *)
(* boolean, a list or a mapping; a SQLite column is NULL, text or a        *)
(* number.  items holds the elements of a list, the keys and values of a   *)
(* mapping in turn, and the tokens of a JSON text.                         *)
(***************************************************************************)
Val(k, s, n) == [k |-> k, s |-> s, n |-> n, items |-> <<>>]
Str(s) == Val("str", s, 0)
Num(n) == Val("num", "", n)
Bool(b) == Val("bool", "", IF b THEN 1 ELSE 0)
Null == Val("null", "", 0)
List(items) == [Val("list", "", 0) EXCEPT !.items = items]
Dict(items) == [Val("dict", "", 0) EXCEPT !.items = items]
Text(tokens) == [Val("str", "", 0) EXCEPT !.items = tokens]
Absent == Val("unset", "", 0)

\* the document fields the model follows (all are keys of field_mapping)
Fields ==
    {"business_name", "address", "business_type", "dba_name", "deleted", "google_rating",
     "business_hours", "review_keywords", "ai_predicted_rating"}

\* the fields stored as JSON text in SQLite (of the four, the model follows a
\* mapping field and a list field)
json_fields == {"business_hours", "review_keywords"}

\* a document of process(): it has no ai_predicted_rating when it is built
Doc(name, address, type, dba, deleted, rating, hours, keywords) ==
    [business_name |-> name, address |-> address, business_type |-> type,
     dba_name |-> dba, deleted |-> deleted, google_rating |-> rating,
     business_hours |-> hours, review_keywords |-> keywords,
     ai_predicted_rating |-> Absent]

\* documents handed to insert_document: the license document built by
\* process(), with google_rating as enrich_restaurant_data leaves it
\* (a number, None for a place without rating, absent when not enriched)
DocA1 ==
    Doc(Str("A"), Str("a1"), Str("Restaurant"), Str("d1"), Bool(FALSE), Num(4),
        Dict(<<"monday", "11-9">>), List(<<"food", "service">>))
DocA2 ==
    Doc(Str("A"), Str("a1"), Str("Restaurant"), Str("d2"), Bool(FALSE), Null,
        Dict(<<>>), List(<<>>))
DocABar ==
    Doc(Str("A"), Str("a1"), Str("Bar"), Str("d1"), Bool(FALSE), Num(3),
        Null, Null)
DocB ==
    Doc(Str("B"), Str("b1"), Str("Restaurant"), Str("d1"), Bool(TRUE), Absent,
        Absent, Absent)
\* a document without any mapped field
DocEmpty == Doc(Absent, Absent, Absent, Absent, Absent, Absent, Absent, Absent)

Documents == {DocA1, DocA2, DocABar, DocB, DocEmpty}

\* (business_name, address, business_type) of a document or a row
KeyOf(d) == <<d.business_name, d.address, d.business_type>>

Range(s) == {s[i] : i \in 1..Len(s)}
KeysOf(s) == {KeyOf(s[i]) : i \in 1..Len(s)}

Prefix(s, n) == IF n > 0 /\ Len(s) > n THEN SubSeq(s, 1, n) ELSE s

(***************************************************************************)
(* Filters: a query dict is a set of clauses; {field: value} is one "eq"   *)
(* clause, {field: {op: value, ...}} one clause per operator.              *)
(***************************************************************************)
Clause(f, op, v) == [f |-> f, op |-> op, v |-> v]

Operators == {"$exists", "$ne", "$gte", "$lte", "$gt", "$lt"}

Filters ==
    { {},
      {Clause("business_type", "eq", Str("Bar"))},
      {Clause("deleted", "eq", Bool(FALSE))},
      {Clause("google_rating", "eq", Null)},
      {Clause("google_rating", "eq", Num(4))},
      {Clause("google_rating", "$exists", Bool(TRUE))},
      {Clause("google_rating", "$exists", Bool(FALSE))},
      {Clause("google_rating", "$ne", Null)},
      {Clause("google_rating", "$ne", Num(4))},
      {Clause("google_rating", "$gte", Num(4))},
      {Clause("google_rating", "$lte", Num(3))},
      {Clause("google_rating", "$gt", Num(3))},
      {Clause("google_rating", "$lt", Num(4))},
      {Clause("google_rating", "$exists", Bool(TRUE)), Clause("google_rating", "$ne", Null),
       Clause("google_rating", "$gte", Num(3)), Clause("google_rating", "$lte", Num(4))},
      {Clause("business_name", "eq", Str("A")), Clause("address", "eq", Str("a1")),
       Clause("business_type", "eq", Str("Restaurant"))} }

(***************************************************************************)
(* Document backend (pymongo collection)                                   *)
(***************************************************************************)
\* MongoDB query matching of one clause
MongoClause(d, c) ==
    LET x == d[c.f]
        eq == IF c.v = Null THEN x \in {Absent, Null} ELSE x = c.v
        cmp == x.k = "num" /\ c.v.k = "num"
    IN  CASE c.op = "eq" -> eq
          [] c.op = "$exists" -> (c.v = Bool(TRUE)) <=> (x # Absent)
          [] c.op = "$ne" -> ~eq
          [] c.op = "$gte" -> cmp /\ x.n >= c.v.n
          [] c.op = "$lte" -> cmp /\ x.n <= c.v.n
          [] c.op = "$gt" -> cmp /\ x.n > c.v.n
          [] c.op = "$lt" -> cmp /\ x.n < c.v.n

MongoMatches(d, query) == \A c \in query : MongoClause(d, c)

\* key of the compound unique index: a missing field is indexed as null
IndexKey(d) ==
    LET n(v) == IF v = Absent THEN Null ELSE v
    IN  <<n(d.business_name), n(d.address), n(d.business_type)>>

\* collection.insert_one: raises on a network error and on a duplicate key
mongo_insert_one(coll, doc, err) ==
    IF err \/ (unique_index /\ \E i \in 1..Len(coll) : IndexKey(coll[i]) = IndexKey(doc))
    THEN [raised |-> TRUE, inserted |-> FALSE, coll |-> coll]
    ELSE [raised |-> FALSE, inserted |-> TRUE, coll |-> Append(coll, doc)]

\* collection.find(query).limit(limit)
mongo_find(coll, query, limit) ==
    Prefix(SelectSeq(coll, LAMBDA d : MongoMatches(d, query)), limit)

\* collection.count_documents(query)
mongo_count_documents(coll, query) ==
    Len(SelectSeq(coll, LAMBDA d : MongoMatches(d, query)))

\* collection.delete_many(query)
mongo_delete_many(coll, query) ==
    [deleted_count |-> Len(SelectSeq(coll, LAMBDA d : MongoMatches(d, query))),
     coll |-> SelectSeq(coll, LAMBDA d : ~MongoMatches(d, query))]

(***************************************************************************)
(* Relational backend (SQLite table food_businesses)                       *)
(***************************************************************************)
\* sqlite3 binds a Python bool as the integer 0 or 1
Adapt(v) == IF v.k = "bool" THEN Num(v.n) ELSE v

\* json.dumps of a list or a mapping: the text "[" elements "]" or
\* "{" keys and values "}", kept as its tokens
json_dumps(v) ==
    IF v.k = "list" THEN Text(<<"[">> \o v.items \o <<"]">>)
    ELSE IF v.k = "dict" THEN Text(<<"{">> \o v.items \o <<"}">>)
    ELSE Text(<<v.s>>)

\* json.loads of a text: raises JSONDecodeError unless the text is a JSON
\* list or mapping (TypeError when the value is no text)
json_loads(x) ==
    LET t == x.items
        n == Len(t)
        inner == IF n > 2 THEN SubSeq(t, 2, n - 1) ELSE <<>>
    IN  IF x.k = "str" /\ n >= 2 /\ t[1] = "[" /\ t[n] = "]"
        THEN [raised |-> FALSE, ret |-> List(inner)]
        ELSE IF x.k = "str" /\ n >= 2 /\ t[1] = "{" /\ t[n] = "}"
        THEN [raised |-> FALSE, ret |-> Dict(inner)]
        ELSE [raised |-> TRUE, ret |-> x]

\* truth value of a column value: NULL, 0, and the empty text are false
Truthy(x) ==
    CASE x.k = "null" -> FALSE
      [] x.k = "num" -> x.n # 0
      [] x.k = "str" -> x.s # "" \/ x.items # <<>>
      [] OTHER -> TRUE

\* the row INSERT writes for a document: a column the document lacks takes
\* its default (NULL, and 0 for deleted), None is stored as NULL, a JSON
\* field that is not None is stored as its JSON text
ToRow(doc) ==
    [f \in Fields |->
        IF doc[f] = Absent THEN (IF f = "deleted" THEN Num(0) ELSE Null)
        ELSE IF f \in json_fields /\ doc[f] # Null THEN json_dumps(doc[f])
        ELSE Adapt(doc[f])]

\* a JSON column returned as stored, never parsed
ReadJsonField_raw(x) == x
\* "if doc.get(field): try: doc[field] = json.loads(doc[field]) except
\* (json.JSONDecodeError, TypeError): pass"
ReadJsonField(x) ==
    IF Truthy(x) /\ ~json_loads(x).raised THEN json_loads(x).ret ELSE x

\* dict(row) with its JSON fields parsed
FromRow(r) == [f \in Fields |-> IF f \in json_fields THEN ReadJsonField(r[f]) ELSE r[f]]

\* "for row in rows: ... documents.append(doc)"
FromRows(rows) == [i \in 1..Len(rows) |-> FromRow(rows[i])]

\* UNIQUE(business_name, address): NULLs never conflict
Conflicts(r1, r2) ==
    /\ r1.business_name # Null /\ r1.address # Null
    /\ r1.business_name = r2.business_name /\ r1.address = r2.address

_insert_sqlite_document(rows, doc, err) ==
    LET columns == {f \in Fields : doc[f] # Absent}
        row == ToRow(doc)
    IN  IF columns = {}
        THEN [raised |-> FALSE, ret |-> FALSE, rows |-> rows]
        ELSE IF err \/ row.business_name = Null
        THEN [raised |-> TRUE, ret |-> FALSE, rows |-> rows]
        ELSE [raised |-> FALSE, ret |-> TRUE,
              rows |-> Append(SelectSeq(rows, LAMBDA r : ~Conflicts(r, row)), row)]

\* SQL "=": never true of NULL
SqlEq(x, v) == x # Null /\ x = v
SqlCmp(x, v) == x.k = "num" /\ v.k = "num"

\* one WHERE part of _find_sqlite_documents; a clause the loop appends no
\* part for does not restrict the result
FindWherePart(r, c) ==
    LET x == r[c.f]
    IN  IF c.f = "deleted" /\ c.op = "eq" /\ c.v.k = "bool"
        THEN SqlEq(x, Num(c.v.n))
        ELSE IF c.op \in Operators
        THEN CASE c.op = "$exists" -> IF c.v = Bool(TRUE) THEN x # Null ELSE x = Null
               [] c.op = "$ne" -> IF c.v = Null THEN x # Null ELSE (x = Null \/ x # Adapt(c.v))
               [] c.op = "$gte" -> SqlCmp(x, c.v) /\ x.n >= c.v.n
               [] c.op = "$lte" -> SqlCmp(x, c.v) /\ x.n <= c.v.n
               [] c.op = "$gt" -> SqlCmp(x, c.v) /\ x.n > c.v.n
               [] c.op = "$lt" -> SqlCmp(x, c.v) /\ x.n < c.v.n
        ELSE IF c.v.k \in {"str", "num", "bool"}
        THEN SqlEq(x, Adapt(c.v))
        ELSE TRUE

_find_sqlite_documents(rows, query, limit, err) ==
    IF err
    THEN [raised |-> TRUE, ret |-> <<>>]
    ELSE [raised |-> FALSE,
          ret |-> FromRows(Prefix(SelectSeq(rows, LAMBDA r : \A c \in query : FindWherePart(r, c)),
                                  limit))]

\* one WHERE part of the loops in count_documents and delete_many, which
\* have no branch for operator dicts
PlainWherePart(r, c) ==
    LET x == r[c.f]
    IN  IF c.f = "deleted" /\ c.op = "eq" /\ c.v.k = "bool"
        THEN SqlEq(x, Num(c.v.n))
        ELSE IF c.op = "eq" /\ c.v.k \in {"str", "num", "bool"}
        THEN SqlEq(x, Adapt(c.v))
        ELSE TRUE

PlainWhere(r, query) == \A c \in query : PlainWherePart(r, c)

(***************************************************************************)
(* DatabaseManager                                                         *)
(***************************************************************************)
\* "except Exception as e: logger.error(...)": the exception stops here
\* a handler that lets the exception through
try_except_reraise(call) == call

try_except(call) == [call EXCEPT !.raised = FALSE]

NotCalled == [raised |-> FALSE]

\* insert_document requiring both writes to succeed
insert_document_both(document, mongoErr, sqliteErr) ==
    LET m0 == mongo_insert_one(mongo, document, mongoErr)
        m == IF mongodb_available THEN try_except(m0)
             ELSE [raised |-> FALSE, inserted |-> FALSE, coll |-> mongo]
        s0 == _insert_sqlite_document(sqlite, document, sqliteErr)
        s == IF sqlite_available THEN try_except(s0)
             ELSE [raised |-> FALSE, ret |-> FALSE, rows |-> sqlite]
    IN  [ret |-> m.inserted /\ s.ret,
         raised |-> m.raised \/ s.raised,
         mongo |-> m.coll, sqlite |-> s.rows]

\* insert_document writing SQLite only when the MongoDB write did not succeed
insert_document_fallback(document, mongoErr, sqliteErr) ==
    LET m0 == mongo_insert_one(mongo, document, mongoErr)
        m == IF mongodb_available THEN try_except(m0)
             ELSE [raised |-> FALSE, inserted |-> FALSE, coll |-> mongo]
        s0 == _insert_sqlite_document(sqlite, document, sqliteErr)
        s == IF sqlite_available /\ ~m.inserted THEN try_except(s0)
             ELSE [raised |-> FALSE, ret |-> FALSE, rows |-> sqlite]
    IN  [ret |-> m.inserted \/ s.ret,
         raised |-> m.raised \/ s.raised,
         mongo |-> m.coll, sqlite |-> s.rows]

insert_document(document, mongoErr, sqliteErr) ==
    LET m0 == mongo_insert_one(mongo, document, mongoErr)
        m == IF mongodb_available THEN try_except(m0)
             ELSE [raised |-> FALSE, inserted |-> FALSE, coll |-> mongo]
        success_mongo == m.inserted
        s0 == _insert_sqlite_document(sqlite, document, sqliteErr)
        s == IF sqlite_available THEN try_except(s0)
             ELSE [raised |-> FALSE, ret |-> FALSE, rows |-> sqlite]
        success_sqlite == s.ret
    IN  [ret |-> success_mongo \/ success_sqlite,
         raised |-> m.raised \/ s.raised,
         mongo |-> m.coll, sqlite |-> s.rows]

\* find_documents falling back to SQLite when MongoDB answers with no document
find_documents_empty_fallback(query, limit, mongoErr, sqliteErr) ==
    LET m0 == IF mongoErr THEN [raised |-> TRUE, ret |-> <<>>]
              ELSE [raised |-> FALSE, ret |-> mongo_find(mongo, query, limit)]
        s0 == _find_sqlite_documents(sqlite, query, limit, sqliteErr)
    IN  IF mongodb_available /\ ~m0.raised /\ m0.ret # <<>>
        THEN [ret |-> m0.ret, raised |-> FALSE, from |-> "mongo"]
        ELSE IF sqlite_available /\ ~s0.raised
             THEN [ret |-> s0.ret, raised |-> FALSE, from |-> "sqlite"]
             ELSE [ret |-> <<>>, raised |-> FALSE, from |-> "none"]

find_documents(query, limit, mongoErr, sqliteErr) ==
    LET m0 == IF mongoErr THEN [raised |-> TRUE, ret |-> <<>>]
              ELSE [raised |-> FALSE, ret |-> mongo_find(mongo, query, limit)]
        m == IF mongodb_available THEN try_except(m0) ELSE NotCalled
        s0 == _find_sqlite_documents(sqlite, query, limit, sqliteErr)
    IN  IF mongodb_available /\ ~m0.raised
        THEN [ret |-> m0.ret, raised |-> m.raised, from |-> "mongo"]
        ELSE LET s == IF sqlite_available THEN try_except(s0) ELSE NotCalled
             IN  IF sqlite_available /\ ~s0.raised
                 THEN [ret |-> s0.ret, raised |-> m.raised \/ s.raised, from |-> "sqlite"]
                 ELSE [ret |-> <<>>, raised |-> m.raised \/ s.raised, from |-> "none"]

count_documents(query, mongoErr, sqliteErr) ==
    LET m0 == IF mongoErr THEN [raised |-> TRUE, ret |-> 0]
              ELSE [raised |-> FALSE, ret |-> mongo_count_documents(mongo, query)]
        m == IF mongodb_available THEN try_except(m0) ELSE NotCalled
        s0 == IF sqliteErr THEN [raised |-> TRUE, ret |-> 0]
              ELSE [raised |-> FALSE,
                    ret |-> Len(SelectSeq(sqlite, LAMBDA r : PlainWhere(r, query)))]
    IN  IF mongodb_available /\ ~m0.raised
        THEN [ret |-> m0.ret, raised |-> m.raised, from |-> "mongo"]
        ELSE LET s == IF sqlite_available THEN try_except(s0) ELSE NotCalled
             IN  IF sqlite_available /\ ~s0.raised
                 THEN [ret |-> s0.ret, raised |-> m.raised \/ s.raised, from |-> "sqlite"]
                 ELSE [ret |-> 0, raised |-> m.raised \/ s.raised, from |-> "none"]

delete_many(query, mongoErr, sqliteErr) ==
    LET m0 == IF mongoErr THEN [raised |-> TRUE, deleted_count |-> 0, coll |-> mongo]
              ELSE [raised |-> FALSE] @@ mongo_delete_many(mongo, query)
        m == IF mongodb_available THEN try_except(m0)
             ELSE [raised |-> FALSE, deleted_count |-> 0, coll |-> mongo]
        deleted_count1 == m.deleted_count
        s0 == IF sqliteErr THEN [raised |-> TRUE, rowcount |-> 0, rows |-> sqlite]
              ELSE [raised |-> FALSE,
                    rowcount |-> Len(SelectSeq(sqlite, LAMBDA r : PlainWhere(r, query))),
                    rows |-> SelectSeq(sqlite, LAMBDA r : ~PlainWhere(r, query))]
        s == IF sqlite_available THEN try_except(s0)
             ELSE [raised |-> FALSE, rowcount |-> 0, rows |-> sqlite]
        sqlite_deleted == s.rowcount
        deleted_count == IF sqlite_deleted > 0 THEN sqlite_deleted ELSE deleted_count1
    IN  [ret |-> deleted_count, raised |-> m.raised \/ s.raised,
         mongo |-> m.coll, sqlite |-> s.rows]

(***************************************************************************)
(* Rating predictor: RestaurantAIPredictor.  Coordinates are positions on  *)
(* the local plane and distances are miles, both in tenths of a mile       *)
(* (69 miles per degree folded in); ratings are in tenths; scores and      *)
(* weights are in thousandths, divisions rounding down.                    *)
(***************************************************************************)
\* largest number of restaurants the store holds
MaxRestaurants == 4

\* 5.0 miles
max_proximity_miles == 50
\* 7.0 miles
max_cuisine_miles == 70
min_similar_restaurants == 3
\* 3.7
default_rating == 37
\* the clamp: 1.0 and 5.0
rating_floor == 10
rating_ceiling == 50

Min(a, b) == IF a <= b THEN a ELSE b
Maximum(a, b) == IF a >= b THEN a ELSE b

\* math.sqrt, rounded down
Isqrt(n) == CHOOSE r \in 0..n : r * r <= n /\ (r + 1) * (r + 1) > n

calculate_distance(lat1, lon1, lat2, lon2) ==
    LET lat_diff == lat2 - lat1
        lon_diff == lon2 - lon1
    IN  Isqrt(lat_diff * lat_diff + lon_diff * lon_diff)

\* str.lower on the cuisine names of the model
Lower(s) ==
    CASE s \in {"Mexican", "MEXICAN", "mexican"} -> "mexican"
      [] s \in {"Thai", "thai"} -> "thai"
      [] OTHER -> s

\* the target of a prediction (no amenity is set)
PredictionFeatures(latitude, longitude, cuisine_type) ==
    [latitude |-> latitude, longitude |-> longitude, cuisine_type |-> cuisine_type]

\* when no amenity is set on one side there is nothing to compare: 0.5
calculate_amenity_similarity(features, restaurant) == 500

\* a stored restaurant
Restaurant(latitude, longitude, cuisine, rating, reviews) ==
    [latitude |-> latitude, longitude |-> longitude, cuisine_type |-> cuisine,
     google_rating |-> rating, google_user_ratings_total |-> reviews]

\* the restaurants of the model, around a target at (100, 100):
\* 3.0 miles away, same cuisine in another case
MexNear == Restaurant(Num(118), Num(124), Str("mexican"), Num(45), Num(50))
\* 2.0 miles away, another cuisine, stored rating 0.5
ThaiNear == Restaurant(Num(100), Num(120), Str("Thai"), Num(5), Num(200))
\* 6.0 miles away, same cuisine, stored rating 9.0
MexFar == Restaurant(Num(100), Num(160), Str("MEXICAN"), Num(90), Num(10))
\* 6.0 miles away, no cuisine
OtherFar == Restaurant(Num(160), Num(100), Null, Num(40), Num(10))
\* inside the bounding box, 8.4 miles away
MexCorner == Restaurant(Num(160), Num(160), Str("mexican"), Num(45), Num(50))
\* 1.0 mile away, the number of reviews is None
NoReviews == Restaurant(Num(110), Num(100), Str("Thai"), Num(40), Null)

Restaurants == {MexNear, ThaiNear, MexFar, OtherFar, MexCorner, NoReviews}

Handles == {"none", "collection", "manager"}

\* the bounding-box query: a rating that is set, latitude and longitude
\* within 7 miles of the target
InBox(features, restaurant) ==
    /\ restaurant.google_rating \notin {Absent, Null}
    /\ restaurant.latitude.k = "num" /\ restaurant.longitude.k = "num"
    /\ restaurant.latitude.n >= features.latitude - max_cuisine_miles
    /\ restaurant.latitude.n <= features.latitude + max_cuisine_miles
    /\ restaurant.longitude.n >= features.longitude - max_cuisine_miles
    /\ restaurant.longitude.n <= features.longitude + max_cuisine_miles

\* no restaurant is too far
too_far_never(distance, max_distance) == FALSE
\* "if distance > self.max_cuisine_miles: continue" and
\* "if distance > max_distance: continue"
too_far(distance, max_distance) == distance > max_cuisine_miles \/ distance > max_distance

\* the body of the loop for one restaurant: "skip" (continue), "raise"
\* (review_count / 100.0 with None for the count: TypeError) or the
\* SimilarRestaurant that is appended (name stands for the restaurant)
Similar(features, restaurant) ==
    LET distance == calculate_distance(features.latitude, features.longitude,
                                       restaurant.latitude.n, restaurant.longitude.n)
        cuisine_match == /\ Truthy(features.cuisine_type)
                         /\ Truthy(restaurant.cuisine_type)
                         /\ Lower(features.cuisine_type.s) = Lower(restaurant.cuisine_type.s)
        max_distance == IF cuisine_match THEN max_cuisine_miles ELSE max_proximity_miles
        proximity_score == Maximum(0, 1000 - (1000 * distance) \div max_distance)
        cuisine_score == IF cuisine_match THEN 1000 ELSE 300
        amenity_similarity == calculate_amenity_similarity(features, restaurant)
        review_count == IF restaurant.google_user_ratings_total = Absent THEN 0
                        ELSE restaurant.google_user_ratings_total.n
        review_score == Min(1000, review_count * 10)
        similarity_score == (400 * proximity_score + 300 * cuisine_score
                             + 200 * amenity_similarity + 100 * review_score) \div 1000
        weight == (similarity_score * 10) \div Maximum(1, distance)
    IN  IF ~Truthy(restaurant.latitude) \/ ~Truthy(restaurant.longitude)
        THEN [step |-> "skip"]
        ELSE IF too_far(distance, max_distance)
        THEN [step |-> "skip"]
        ELSE IF restaurant.google_user_ratings_total = Null
        THEN [step |-> "raise"]
        ELSE [step |-> "append", name |-> restaurant,
              rating |-> IF restaurant.google_rating = Absent THEN 35
                         ELSE restaurant.google_rating.n,
              distance_miles |-> distance, cuisine_match |-> cuisine_match,
              similarity_score |-> similarity_score, weight |-> weight]

\* the loop over the restaurants found: the list so far, and whether an
\* exception ended the loop
RECURSIVE score_loop(_, _, _)
score_loop(found, features, similar_restaurants) ==
    IF found = <<>>
    THEN [raised |-> FALSE, similar |-> similar_restaurants]
    ELSE LET c == Similar(features, Head(found))
         IN  CASE c.step = "skip" -> score_loop(Tail(found), features, similar_restaurants)
               [] c.step = "raise" -> [raised |-> TRUE, similar |-> similar_restaurants]
               [] c.step = "append" ->
                    score_loop(Tail(found), features, Append(similar_restaurants, c))

\* list.sort(key=similarity_score, reverse=True): stable
RECURSIVE sort(_)
sort(l) ==
    IF l = <<>> THEN <<>>
    ELSE LET rest == sort(Tail(l))
             first == SelectSeq(rest, LAMBDA c : c.similarity_score > Head(l).similarity_score)
             others == SelectSeq(rest, LAMBDA c : c.similarity_score <= Head(l).similarity_score)
         IN  first \o <<Head(l)>> \o others

\* find_similar_restaurants.  "if not self.collection" is outside the try:
\* a pymongo 4 Collection raises NotImplementedError on truth testing
\* (bool_raises), a pymongo 3 Collection and the manager are true.  Inside
\* the try, an exception of find (find_raises) or of the loop is logged, and
\* the list as it is at that point is returned.
find_similar_restaurants(handle, stored, features, bool_raises, find_raises) ==
    IF handle = "none"
    THEN [raised |-> FALSE, similar |-> <<>>]
    ELSE IF handle = "collection" /\ bool_raises
    THEN [raised |-> TRUE, similar |-> <<>>]
    ELSE IF find_raises
    THEN [raised |-> FALSE, similar |-> <<>>]
    ELSE LET found == SelectSeq(stored, LAMBDA r : InBox(features, r))
             loop == score_loop(found, features, <<>>)
         IN  [raised |-> FALSE,
              similar |-> IF loop.raised THEN loop.similar ELSE sort(loop.similar)]

\* total_weighted_rating and total_weight of the loop of predict_rating
RECURSIVE total_weighted_rating(_)
total_weighted_rating(l) ==
    IF l = <<>> THEN 0 ELSE Head(l).rating * Head(l).weight + total_weighted_rating(Tail(l))

RECURSIVE total_weight(_)
total_weight(l) == IF l = <<>> THEN 0 ELSE Head(l).weight + total_weight(Tail(l))

\* the default is kept for fewer than two candidates only
insufficient_two(similar_restaurants) == Len(similar_restaurants) < 2
\* "if len(similar_restaurants) < self.min_similar_restaurants"
insufficient(similar_restaurants) == Len(similar_restaurants) < min_similar_restaurants

\* the confidence rules with two cuisine matches enough for "High"
confidence_level_high_two(cuisine_matches, proximity_matches, total) ==
    IF cuisine_matches >= 2 /\ proximity_matches >= 2
    THEN "High - strong cuisine and proximity matches"
    ELSE IF cuisine_matches >= 2 \/ proximity_matches >= 3
    THEN "Medium - good local or cuisine data"
    ELSE IF total >= 5
    THEN "Medium - sufficient nearby data"
    ELSE "Low - limited comparison data"
\* the confidence rules with "sufficient nearby data" from 3 candidates on
confidence_level_sufficient_three(cuisine_matches, proximity_matches, total) ==
    IF cuisine_matches >= 3 /\ proximity_matches >= 2
    THEN "High - strong cuisine and proximity matches"
    ELSE IF cuisine_matches >= 2 \/ proximity_matches >= 3
    THEN "Medium - good local or cuisine data"
    ELSE IF total >= 3
    THEN "Medium - sufficient nearby data"
    ELSE "Low - limited comparison data"
\* the confidence rules with the first two in the other order
confidence_level_medium_first(cuisine_matches, proximity_matches, total) ==
    IF cuisine_matches >= 2 \/ proximity_matches >= 3
    THEN "Medium - good local or cuisine data"
    ELSE IF cuisine_matches >= 3 /\ proximity_matches >= 2
    THEN "High - strong cuisine and proximity matches"
    ELSE IF total >= 5
    THEN "Medium - sufficient nearby data"
    ELSE "Low - limited comparison data"
\* "Determine confidence level"
confidence_level(cuisine_matches, proximity_matches, total) ==
    IF cuisine_matches >= 3 /\ proximity_matches >= 2
    THEN "High - strong cuisine and proximity matches"
    ELSE IF cuisine_matches >= 2 \/ proximity_matches >= 3
    THEN "Medium - good local or cuisine data"
    ELSE IF total >= 5
    THEN "Medium - sufficient nearby data"
    ELSE "Low - limited comparison data"

\* the clamp left out
clamp_none(predicted_rating) == predicted_rating
\* max(1.0, min(5.0, predicted_rating))
clamp(predicted_rating) == Maximum(rating_floor, Min(rating_ceiling, predicted_rating))

\* predict_rating: the rating, the confidence and the candidates, or the
\* exception of find_similar_restaurants
predict_rating(handle, stored, features, bool_raises, find_raises) ==
    LET f == find_similar_restaurants(handle, stored, features, bool_raises, find_raises)
        similar_restaurants == f.similar
        cuisine_matches == Len(SelectSeq(similar_restaurants, LAMBDA c : c.cuisine_match))
        proximity_matches ==
            Len(SelectSeq(similar_restaurants, LAMBDA c : c.distance_miles <= max_proximity_miles))
        predicted_rating ==
            IF total_weight(similar_restaurants) = 0 THEN default_rating
            ELSE total_weighted_rating(similar_restaurants) \div total_weight(similar_restaurants)
    IN  IF f.raised
        THEN [raised |-> TRUE, rating |-> 0, confidence |-> "", similar |-> <<>>]
        ELSE IF insufficient(similar_restaurants)
        THEN [raised |-> FALSE, rating |-> default_rating,
              confidence |-> "Low - insufficient nearby data",
              similar |-> similar_restaurants]
        ELSE [raised |-> FALSE, rating |-> clamp(predicted_rating),
              confidence |-> confidence_level(cuisine_matches, proximity_matches,
                                              Len(similar_restaurants)),
              similar |-> similar_restaurants]

\* no prediction has been asked for
NoPrediction ==
    [op |-> "init", features |-> PredictionFeatures(0, 0, Null),
     bool_raises |-> FALSE, find_raises |-> FALSE, loop_raised |-> FALSE,
     raised |-> FALSE, rating |-> 0, confidence |-> "", similar |-> <<>>]

(***************************************************************************)
(* Pipeline: KCRestaurant (setup_mongodb, exists, enrich_restaurant_data,  *)
(* process) and the place lookup of GooglePlacesClient                     *)
(***************************************************************************)
\* largest number of rows of the license input
MaxRows == 2
\* largest number of runs over the same input
MaxRuns == 2

Row(name, dba, address, type) ==
    [business_name |-> name, dba_name |-> dba, address |-> address, business_type |-> type]

\* business types kept by the filter ("Restaurant" stands for
\* "Full-Service Restaurants")
FOOD_BUSINESS_TYPES == {"Restaurant", "Retail Bakeries"}

is_food_business(business_type) == business_type \in FOOD_BUSINESS_TYPES

\* rows of the current year: two food businesses and a business the filter drops
RowA == Row("A", "d1", "a1", "Restaurant")
RowB == Row("B", "d1", "b1", "Restaurant")
RowCaterer == Row("C", "d1", "c1", "Caterers")
Rows == {RowA, RowB, RowCaterer}

\* the license inputs: the rows after the header
Inputs == UNION {[1..n -> Rows] : n \in 1..MaxRows}

\* DatabaseManager.get_collection: the raw MongoDB collection, else the
\* manager itself, else None
get_collection(mongodb, sqlite_db) ==
    IF mongodb THEN "collection" ELSE IF sqlite_db THEN "manager" ELSE "none"

\* the place data of a lookup; located says whether latitude and longitude
\* are set
PlaceData(rating, located, hours, keywords) ==
    [found |-> TRUE, rating |-> rating, located |-> located,
     business_hours |-> hours, review_keywords |-> keywords,
     ai_predicted_rating |-> Null]

\* enrich_restaurant_data returned None
NoPlace ==
    [found |-> FALSE, rating |-> Null, located |-> FALSE,
     business_hours |-> Null, review_keywords |-> Null, ai_predicted_rating |-> Null]

\* what the Places API answers for a business that it knows
Places ==
    {PlaceData(Num(4), TRUE, Dict(<<"monday", "11-9">>), List(<<"food", "service">>)),
     PlaceData(Null, FALSE, Null, Null)}

\* the filter of exists: all three fields must match
query_filter(row) ==
    {Clause("business_name", "eq", Str(row.business_name)),
     Clause("address", "eq", Str(row.address)),
     Clause("business_type", "eq", Str(row.business_type))}

\* KCRestaurant.exists: self.collection.count_documents(query_filter, limit=1)
\* inside try / except Exception: return False.  The raw collection takes
\* limit; DatabaseManager.count_documents(self, query=None) does not, so the
\* call raises TypeError when the collection is the manager.
exists(row, err) ==
    IF collection = "none" THEN FALSE
    ELSE IF collection = "manager" THEN FALSE
    ELSE IF err THEN FALSE
    ELSE mongo_count_documents(mongo, query_filter(row)) > 0

\* the document process() builds for a new business
NewDocument(row) ==
    Doc(Str(row.business_name), Str(row.address), Str(row.business_type),
        Str(row.dba_name), Bool(FALSE), Absent, Absent, Absent)

\* the predictor asked for every place
asks_predictor_always(handle, place_data) == TRUE
\* _predict_rating: "if not self.ai_predictor" (the client has a predictor
\* when its collection is not None) and "if not data.latitude or not
\* data.longitude" send the place to the simple method
asks_predictor(handle, place_data) == handle # "none" /\ place_data.located

\* _simple_predict_rating: the actual rating when there is one, else the
\* default 3.7 (in tenths; the amenity and price adjustments are not followed)
_simple_predict_rating(data) == IF Truthy(data.rating) THEN data.rating ELSE Num(37)

\* document.update(...) of KCRestaurant.enrich_restaurant_data
Merge(document, place_data) ==
    [document EXCEPT !.google_rating = place_data.rating,
                     !.business_hours = place_data.business_hours,
                     !.review_keywords = place_data.review_keywords]

\* what the lookup of GooglePlacesClient.enrich_restaurant_data meets: the
\* Places API gives a place, gives nothing, or the call raises
Answer(raised, place) == [raised |-> raised, place |-> place]
Answers ==
    {Answer(TRUE, NoPlace), Answer(FALSE, NoPlace)} \cup {Answer(FALSE, p) : p \in Places}

\* GooglePlacesClient.enrich_restaurant_data: "except Exception as e: ...
\* return None"
client_enrich_restaurant_data(answer) == IF answer.raised THEN NoPlace ELSE answer.place

\* how the lookup ended, for the record of the run
Outcome(answer) ==
    IF answer.raised THEN "raises" ELSE IF answer.place.found THEN "place" ELSE "nothing"

\* a lookup that raises ends process(): the rest of the input is not read
next_step_abort(answer) ==
    IF answer.raised THEN "done" ELSE IF answer.place.found THEN "parse" ELSE "merge"
\* where the pipeline goes after the lookup: to the parsing of the place, or,
\* when there is no place or the lookup raised (the exception stops in the
\* client, in KCRestaurant.enrich_restaurant_data or in process), on to the
\* insert with the document as it is
next_step(answer) ==
    IF ~answer.raised /\ answer.place.found THEN "parse" ELSE "merge"

\* the insert made in a dry run as well
skips_insert_never(dry_run) == FALSE
\* process: "if self.dry_run: logger.info( [DRY-RUN] Skipping database insert"
skips_insert(dry_run) == dry_run

\* main: flush_database is called when --flush is given, outside a dry run,
\* after a setup that succeeded
main_flushes(dry_run, flush, setup_ok) == ~dry_run /\ setup_ok /\ flush

\* KCRestaurant.flush_database: skipped in a dry run; else
\* self.collection.delete_many({}), on the raw collection (MongoDB alone) or
\* on the manager
flush_database(dry_run, handle) ==
    IF dry_run THEN [ret |-> TRUE, mongo |-> mongo, sqlite |-> sqlite]
    ELSE IF handle = "none" THEN [ret |-> FALSE, mongo |-> mongo, sqlite |-> sqlite]
    ELSE IF handle = "collection"
    THEN [ret |-> TRUE, mongo |-> mongo_delete_many(mongo, {}).coll, sqlite |-> sqlite]
    ELSE LET r == delete_many({}, FALSE, FALSE)
         IN  [ret |-> TRUE, mongo |-> r.mongo, sqlite |-> r.sqlite]

\* no run has started
NoRun ==
    [pc |-> "init", n |-> 0, i |-> 0, dry_run |-> FALSE, flush |-> FALSE,
     google_places_client |-> FALSE,
     document |-> DocEmpty, place_data |-> NoPlace, answer |-> "none", events |-> <<>>,
     new_businesses |-> <<>>, before |-> [mongo |-> <<>>, sqlite |-> <<>>]]

(***************************************************************************)
(* Retry policy and rate limiter (utils/retry_utils.py).  Times are in     *)
(* milliseconds, jitter_range in hundredths.                               *)
(***************************************************************************)
\* largest number of attempts of a retry configuration
MaxAttempts == 3
\* largest number of calls through one rate limiter
MaxCalls == 3

\* an exception: the lower-cased name of its type, and the terms of
\* categorize_error that its lower-cased message contains
Exc(type, terms) == [type |-> type, terms |-> terms]
NoException == Exc("none", {})

\* Exception("401 Unauthorized")
Unauthorized == Exc("exception", {"401", "unauthorized"})
\* requests.HTTPError of raise_for_status: "401 Client Error: Unauthorized for url: ..."
HTTPUnauthorized == Exc("httperror", {"401", "unauthorized"})
\* Exception("REQUEST_DENIED")
RequestDenied == Exc("exception", {"request_denied"})
\* ValueError("404 Not found")
NotFound == Exc("valueerror", {"404", "not found"})
\* Exception("429 Too Many Requests")
TooManyRequests == Exc("exception", {"429", "too many requests"})
\* Exception("Rate limit reached")
RateLimit == Exc("exception", {"rate limit"})
\* RuntimeError("Quota exceeded")
QuotaExceeded == Exc("runtimeerror", {"quota"})
\* Exception("503 Service Unavailable")
ServiceUnavailable == Exc("exception", {"503", "service unavailable"})
\* ConnectionError("Network timeout")
NetworkTimeout == Exc("connectionerror", {"network", "timeout"})
\* Exception("boom")
Unexpected == Exc("exception", {})

Exceptions ==
    {Unauthorized, HTTPUnauthorized, RequestDenied, NotFound, TooManyRequests, RateLimit,
     QuotaExceeded, ServiceUnavailable, NetworkTimeout, Unexpected}

\* "term in error_type" for the terms 'connectionerror', 'timeout',
\* 'httperror': those that the name of the type contains
TypeTerms(error_type) ==
    CASE error_type = "connectionerror" -> {"connectionerror"}
      [] error_type = "timeout" -> {"timeout"}
      [] error_type = "httperror" -> {"httperror"}
      [] OTHER -> {}

categorize_error(exception) ==
    LET error_msg == exception.terms
        error_type == exception.type
    IN  IF error_msg \cap {"connection", "timeout", "network", "dns"} # {} THEN "network"
        ELSE IF TypeTerms(error_type) # {} THEN "network"
        ELSE IF error_msg \cap {"quota", "limit exceeded", "too many requests"} # {}
        THEN "quota_exceeded"
        ELSE IF "rate limit" \in error_msg \/ "429" \in error_msg THEN "rate_limited"
        ELSE IF error_msg \cap {"unauthorized", "authentication", "401"} # {}
        THEN "authentication"
        ELSE IF error_msg \cap {"permission denied", "forbidden", "403"} # {}
        THEN "permission_denied"
        ELSE IF "request_denied" \in error_msg THEN "permission_denied"
        ELSE IF error_msg \cap {"not found", "404", "no results"} # {} THEN "not_found"
        ELSE IF error_msg \cap {"temporary", "service unavailable", "503", "502", "500"} # {}
        THEN "temporary"
        ELSE "unknown"

retry_categories == {"network", "rate_limited", "temporary", "quota_exceeded"}
no_retry_categories == {"authentication", "permission_denied", "not_found", "permanent"}

should_retry(exception, attempt, max_attempts) ==
    IF attempt >= max_attempts THEN FALSE
    ELSE LET category == categorize_error(exception)
         IN  IF category \in retry_categories THEN TRUE
             ELSE IF category \in no_retry_categories THEN FALSE
             ELSE attempt < Min(max_attempts, 2)

RetryConfig(attempts, base_delay, max_delay, jitter) ==
    [attempts |-> attempts, base_delay |-> base_delay, max_delay |-> max_delay,
     exponential_base |-> 2, jitter |-> jitter, jitter_range |-> 10]

\* the configurations of retry (max_delay 60 s) and of robust_api_call
\* (max_delay 300 s), with base_delay 1 s or 0.5 s
Configs ==
    {RetryConfig(attempts, base_delay, max_delay, jitter) :
        attempts \in 1..MaxAttempts, base_delay \in {500, 1000},
        max_delay \in {60000, 300000}, jitter \in BOOLEAN}

\* random.uniform(-jitter_amount, jitter_amount): the draw, as a multiple of
\* jitter_amount
Draws == {-1, 0, 1}

\* calculate_delay, for the draw u of random.uniform
calculate_delay(attempt, config, exception, u) ==
    LET category == IF exception # NoException THEN categorize_error(exception)
                    ELSE "unknown"
        delay == config.base_delay * (config.exponential_base ^ (attempt - 1))
        adjusted == CASE category = "rate_limited" -> Maximum(delay, 30000)
                      [] category = "quota_exceeded" -> Maximum(delay, 60000)
                      [] category = "network" -> Min(delay, 10000)
                      [] OTHER -> delay
        capped == Min(adjusted, config.max_delay)
        jitter_amount == (capped * config.jitter_range) \div 100
        jitter == u * jitter_amount
    IN  Maximum(IF config.jitter THEN capped + jitter ELSE capped, 100)

\* what an invocation of the wrapped function gives: a value (None
\* included) or an exception
Outcomes ==
    {[ok |-> TRUE, value |-> v, exception |-> NoException] : v \in {"place_id", "None"}}
    \cup {[ok |-> FALSE, value |-> "none", exception |-> e] : e \in Exceptions}

\* the loop of wrapper going on whatever the failure and the attempt
continues_always(exception, attempt, attempts) == TRUE
\* the loop of wrapper goes on to another attempt: no "break" after
\* should_retry, and range(1, attempts + 1) is not exhausted
continues(exception, attempt, attempts) ==
    should_retry(exception, attempt, attempts) /\ attempt + 1 <= attempts

\* no wrapped call is under way
NoWrapped ==
    [status |-> "idle", config |-> RetryConfig(1, 1000, 60000, FALSE), attempt |-> 0,
     invocations |-> 0, last_exception |-> NoException, category |-> "none",
     delay |-> 0, result |-> "none", raised |-> NoException]

\* time.time() when the program starts
Epoch == 5000

\* the time that passes between two calls: none, less than an interval, an
\* interval, the shortest first delay of a retry (0.9 s), more
Elapsed == {0, 100, 125, 900, 1000}

\* time.sleep returns after the time asked for, or later
Overruns == {0, 5}

\* rate_limited( per_second ) has not been applied yet
NoLimiter ==
    [calls_per_second |-> 0, min_interval |-> 0, last_call_time |-> 0, time |-> Epoch,
     calls |-> 0, current_time |-> 0, slept |-> 0, previous |-> 0]

\* RateLimiter.__init__
RateLimiter(calls_per_second) ==
    [NoLimiter EXCEPT !.calls_per_second = calls_per_second,
                      !.min_interval = 1000 \div calls_per_second,
                      !.last_call_time = 0]

\* a sleep of half the time that is missing
sleep_time_half(time_since_last, min_interval) ==
    IF time_since_last < min_interval THEN (min_interval - time_since_last) \div 2 ELSE 0
\* "if time_since_last < self.min_interval: sleep_time = self.min_interval -
\* time_since_last"
sleep_time(time_since_last, min_interval) ==
    IF time_since_last < min_interval THEN min_interval - time_since_last ELSE 0

\* RateLimiter.wait_if_needed of a call that arrives at current_time, with
\* the overrun of its sleep
wait_if_needed(self, current_time, overrun) ==
    LET time_since_last == current_time - self.last_call_time
        slept == sleep_time(time_since_last, self.min_interval)
        now == IF slept > 0 THEN current_time + slept + overrun ELSE current_time
    IN  [self EXCEPT !.last_call_time = now, !.time = now, !.calls = self.calls + 1,
                     !.current_time = current_time, !.slept = now - current_time,
                     !.previous = self.last_call_time]

(***************************************************************************)
(* State machine.  The program is single-threaded: the caller makes one    *)
(* call at a time.  last holds the call that has just returned (its        *)
(* arguments, its result, what the backends did); the caller then takes    *)
(* the result (Return) and is free to make the next call.                  *)
(***************************************************************************)
NoCall ==
    [op |-> "init", document |-> DocEmpty, query |-> {}, limit |-> 0,
     ret |-> FALSE, docs |-> <<>>, count |-> 0, raised |-> FALSE, from |-> "none",
     mongoErr |-> FALSE, sqliteErr |-> FALSE,
     mongoWrote |-> FALSE, sqliteWrote |-> FALSE, mongoDeleted |-> 0, sqliteDeleted |-> 0]

\* an error can only come from a backend that is called
Errs(available) == IF available THEN BOOLEAN ELSE {FALSE}

\* the store on its own: no predictor call and no run is under way
Init ==
    /\ mongodb_available \in BOOLEAN
    /\ sqlite_available \in BOOLEAN
    /\ unique_index \in BOOLEAN
    /\ mongo = <<>>
    /\ sqlite = <<>>
    /\ last = NoCall
    /\ collection = "none"
    /\ restaurants = <<>>
    /\ prediction = NoPrediction
    /\ csv_rows = <<>>
    /\ run = NoRun
    /\ wrapped = NoWrapped
    /\ limiter = NoLimiter

\* a new run constructs the manager again: each backend is reachable or not
Idle == last.op = "init"

DatabaseManager_init ==
    /\ Idle
    /\ mongodb_available' \in BOOLEAN
    /\ sqlite_available' \in BOOLEAN
    /\ last' = NoCall
    /\ UNCHANGED <<unique_index, mongo, sqlite>>
    /\ UNCHANGED <<predictorVars, pipelineVars, retryVars>>

InsertDocument ==
    \E document \in Documents, mongoErr \in Errs(mongodb_available), sqliteErr \in Errs(sqlite_available) :
        LET r == insert_document(document, mongoErr, sqliteErr)
        IN  /\ Idle
            /\ Len(mongo) < MaxDocs
            /\ Len(sqlite) < MaxDocs
            /\ mongo' = r.mongo
            /\ sqlite' = r.sqlite
            /\ last' = [NoCall EXCEPT !.op = "insert", !.document = document,
                           !.ret = r.ret, !.raised = r.raised,
                           !.mongoErr = mongoErr, !.sqliteErr = sqliteErr,
                           !.mongoWrote = (mongodb_available
                                /\ mongo_insert_one(mongo, document, mongoErr).inserted),
                           !.sqliteWrote = (sqlite_available
                                /\ _insert_sqlite_document(sqlite, document, sqliteErr).ret)]
            /\ UNCHANGED <<mongodb_available, sqlite_available, unique_index>>
            /\ UNCHANGED <<predictorVars, pipelineVars, retryVars>>

FindDocuments ==
    \E query \in Filters, limit \in 0..MaxLimit,
       mongoErr \in Errs(mongodb_available), sqliteErr \in Errs(sqlite_available) :
        LET r == find_documents(query, limit, mongoErr, sqliteErr)
        IN  /\ Idle
            /\ last' = [NoCall EXCEPT !.op = "find", !.query = query, !.limit = limit,
                           !.docs = r.ret, !.raised = r.raised, !.from = r.from,
                           !.mongoErr = mongoErr, !.sqliteErr = sqliteErr]
            /\ UNCHANGED <<mongodb_available, sqlite_available, unique_index, mongo, sqlite>>
            /\ UNCHANGED <<predictorVars, pipelineVars, retryVars>>

CountDocuments ==
    \E query \in Filters,
       mongoErr \in Errs(mongodb_available), sqliteErr \in Errs(sqlite_available) :
        LET r == count_documents(query, mongoErr, sqliteErr)
        IN  /\ Idle
            /\ last' = [NoCall EXCEPT !.op = "count", !.query = query,
                           !.count = r.ret, !.raised = r.raised, !.from = r.from,
                           !.mongoErr = mongoErr, !.sqliteErr = sqliteErr]
            /\ UNCHANGED <<mongodb_available, sqlite_available, unique_index, mongo, sqlite>>
            /\ UNCHANGED <<predictorVars, pipelineVars, retryVars>>

DeleteMany ==
    \E query \in Filters,
       mongoErr \in Errs(mongodb_available), sqliteErr \in Errs(sqlite_available) :
        LET r == delete_many(query, mongoErr, sqliteErr)
        IN  /\ Idle
            /\ mongo' = r.mongo
            /\ sqlite' = r.sqlite
            /\ last' = [NoCall EXCEPT !.op = "delete", !.query = query,
                           !.count = r.ret, !.raised = r.raised,
                           !.mongoErr = mongoErr, !.sqliteErr = sqliteErr,
                           !.mongoDeleted = Len(mongo) - Len(r.mongo),
                           !.sqliteDeleted = Len(sqlite) - Len(r.sqlite)]
            /\ UNCHANGED <<mongodb_available, sqlite_available, unique_index>>
            /\ UNCHANGED <<predictorVars, pipelineVars, retryVars>>

\* the caller has taken the result of the call
Return ==
    /\ ~Idle
    /\ last' = NoCall
    /\ UNCHANGED <<mongodb_available, sqlite_available, unique_index, mongo, sqlite>>
    /\ UNCHANGED <<predictorVars, pipelineVars, retryVars>>

Next ==
    \/ DatabaseManager_init
    \/ InsertDocument
    \/ FindDocuments
    \/ CountDocuments
    \/ DeleteMany
    \/ Return

Spec == Init /\ [][Next]_vars

TypeOK == last.op \in {"init", "insert", "find", "count", "delete"}

(***************************************************************************)
(* The predictor as a state machine: restaurants come into the store, and  *)
(* a prediction is asked for a target; prediction holds the call that has  *)
(* just returned.                                                          *)
(***************************************************************************)
\* the target of the predictions
Targets == {PredictionFeatures(100, 100, Str("Mexican")), PredictionFeatures(100, 100, Null)}

\* RestaurantAIPredictor(mongodb_collection): no collection, the raw
\* MongoDB collection, or the manager
InitPredictor ==
    /\ mongodb_available = FALSE
    /\ sqlite_available = FALSE
    /\ unique_index = FALSE
    /\ mongo = <<>>
    /\ sqlite = <<>>
    /\ last = NoCall
    /\ collection \in Handles
    /\ restaurants = <<>>
    /\ prediction = NoPrediction
    /\ csv_rows = <<>>
    /\ run = NoRun
    /\ wrapped = NoWrapped
    /\ limiter = NoLimiter

PredictorIdle == prediction.op = "init"

\* an enriched restaurant is written to the store
StoreRestaurant ==
    \E r \in Restaurants :
        /\ PredictorIdle
        /\ collection # "none"
        /\ Len(restaurants) < MaxRestaurants
        /\ restaurants' = Append(restaurants, r)
        /\ UNCHANGED <<storeVars, collection, prediction, pipelineVars, retryVars>>

PredictRating ==
    \E features \in Targets, bool_raises \in Errs(collection = "collection"),
       find_raises \in Errs(collection # "none") :
        LET r == predict_rating(collection, restaurants, features, bool_raises, find_raises)
        IN  /\ PredictorIdle
            /\ prediction' = [NoPrediction EXCEPT !.op = "predict", !.features = features,
                                 !.bool_raises = bool_raises, !.find_raises = find_raises,
                                 !.loop_raised =
                                     (/\ collection # "none" /\ ~bool_raises /\ ~find_raises
                                      /\ score_loop(SelectSeq(restaurants,
                                                              LAMBDA x : InBox(features, x)),
                                                    features, <<>>).raised),
                                 !.raised = r.raised, !.rating = r.rating,
                                 !.confidence = r.confidence, !.similar = r.similar]
            /\ UNCHANGED <<storeVars, collection, restaurants, pipelineVars, retryVars>>

\* the caller has taken the prediction
PredictorReturn ==
    /\ ~PredictorIdle
    /\ prediction' = NoPrediction
    /\ UNCHANGED <<storeVars, collection, restaurants, pipelineVars, retryVars>>

NextPredictor ==
    \/ StoreRestaurant
    \/ PredictRating
    \/ PredictorReturn

SpecPredictor == InitPredictor /\ [][NextPredictor]_vars

(***************************************************************************)
(* The pipeline as a state machine.  A run sets the store up, then takes   *)
(* the rows in turn; for a new business it goes through the place lookup,  *)
(* the parsing of the answer (with the prediction), the merge and the      *)
(* insert.  The process can be killed between any two steps, and the same  *)
(* input can be processed again.  events lists the steps taken for the     *)
(* business at hand, before is the content of the backends when the run    *)
(* started.  The calls to a reachable backend succeed (Spec follows their  *)
(* failures).                                                              *)
(***************************************************************************)
InitPipeline ==
    /\ mongodb_available \in BOOLEAN
    /\ sqlite_available \in BOOLEAN
    /\ unique_index = FALSE
    /\ \E earlier \in BOOLEAN :
           /\ mongo = IF earlier /\ mongodb_available THEN <<NewDocument(RowB)>> ELSE <<>>
           /\ sqlite = IF earlier /\ sqlite_available
                       THEN <<ToRow(NewDocument(RowB))>> ELSE <<>>
    /\ last = NoCall
    /\ collection = "none"
    /\ restaurants = <<>>
    /\ prediction = NoPrediction
    /\ csv_rows \in Inputs
    /\ \E dry_run \in BOOLEAN, flush \in BOOLEAN, enable_enrichment \in BOOLEAN :
           run = [NoRun EXCEPT !.dry_run = dry_run, !.flush = flush,
                               !.google_places_client = enable_enrichment]
    /\ wrapped = NoWrapped
    /\ limiter = NoLimiter

\* main: a KCRestaurant is made and setup_mongodb constructs the
\* DatabaseManager, takes its collection and, unless the setup failed, makes
\* the Google Places client.  The backends are as reachable, and the command
\* line is the same, as in the run before.
StartRun ==
    /\ run.pc \in {"init", "done", "crashed"}
    /\ run.n < MaxRuns
    /\ LET handle == get_collection(mongodb_available, sqlite_available)
           setup_ok == mongodb_available \/ sqlite_available
           flushed == IF main_flushes(run.dry_run, run.flush, setup_ok)
                      THEN flush_database(run.dry_run, handle)
                      ELSE [ret |-> TRUE, mongo |-> mongo, sqlite |-> sqlite]
       IN  /\ collection' = handle
           /\ mongo' = flushed.mongo
           /\ sqlite' = flushed.sqlite
           /\ run' = [NoRun EXCEPT !.pc = IF flushed.ret THEN "row" ELSE "done",
                         !.n = run.n + 1, !.i = 1,
                         !.dry_run = run.dry_run, !.flush = run.flush,
                         !.google_places_client = (run.google_places_client /\ setup_ok),
                         !.before = [mongo |-> mongo, sqlite |-> sqlite]]
    /\ UNCHANGED <<mongodb_available, sqlite_available, unique_index, last,
                   restaurants, prediction, csv_rows, retryVars>>

\* process: the head of the loop body, up to the document of a new business
ProcessRow ==
    /\ run.pc = "row"
    /\ IF run.i > Len(csv_rows)
       THEN run' = [run EXCEPT !.pc = "done", !.document = DocEmpty,
                               !.place_data = NoPlace, !.answer = "none",
                               !.events = <<>>]
       ELSE LET row == csv_rows[run.i]
            IN  IF ~is_food_business(row.business_type) \/ exists(row, FALSE)
                THEN run' = [run EXCEPT !.i = run.i + 1, !.document = DocEmpty,
                                !.place_data = NoPlace, !.answer = "none",
                                !.events = <<>>]
                ELSE run' = [run EXCEPT !.document = NewDocument(row),
                                !.place_data = NoPlace, !.answer = "none",
                                !.events = <<>>,
                                !.pc = IF run.google_places_client
                                       THEN "lookup" ELSE "insert"]
    /\ UNCHANGED <<storeVars, predictorVars, csv_rows, retryVars>>

\* GooglePlacesClient.enrich_restaurant_data up to the answer of the Places
\* API: no place (nothing found, or an error that ends the lookup) or the
\* details of a place
Lookup ==
    /\ run.pc = "lookup"
    /\ \E answer \in Answers :
           run' = [run EXCEPT !.events = Append(run.events, "lookup"),
                      !.answer = Outcome(answer),
                      !.place_data = client_enrich_restaurant_data(answer),
                      !.pc = next_step(answer)]
    /\ UNCHANGED <<storeVars, predictorVars, csv_rows, retryVars>>

\* _parse_place_details -> _predict_rating: the predictor is asked when the
\* client has one (its collection is not None) and the place has
\* coordinates; when it is not asked, or raises, the simple rating is taken
Parse ==
    /\ run.pc = "parse"
    /\ IF asks_predictor(collection, run.place_data)
       THEN \E predicted \in {Null, Num(37), Num(42)} :
                run' = [run EXCEPT !.events = Append(run.events, "predict"),
                           !.place_data.ai_predicted_rating =
                               IF predicted = Null
                               THEN _simple_predict_rating(run.place_data)
                               ELSE predicted,
                           !.pc = "merge"]
       ELSE run' = [run EXCEPT !.place_data.ai_predicted_rating =
                                   _simple_predict_rating(run.place_data),
                               !.pc = "merge"]
    /\ UNCHANGED <<storeVars, predictorVars, csv_rows, retryVars>>

\* KCRestaurant.enrich_restaurant_data: "if place_data: document.update(...)"
MergePlaceData ==
    /\ run.pc = "merge"
    /\ IF run.place_data.found
       THEN run' = [run EXCEPT !.document = Merge(run.document, run.place_data),
                               !.events = Append(run.events, "merge"), !.pc = "insert"]
       ELSE run' = [run EXCEPT !.pc = "insert"]
    /\ UNCHANGED <<storeVars, predictorVars, csv_rows, retryVars>>

\* process: the insert through the manager (skipped in a dry run), then the
\* business is counted and reported as new
InsertAndReport ==
    /\ run.pc = "insert"
    /\ IF skips_insert(run.dry_run)
       THEN /\ run' = [run EXCEPT !.new_businesses = Append(run.new_businesses, KeyOf(run.document)),
                                  !.i = run.i + 1, !.pc = "row"]
            /\ UNCHANGED <<mongo, sqlite>>
       ELSE LET r == insert_document(run.document, FALSE, FALSE)
            IN  /\ mongo' = r.mongo
                /\ sqlite' = r.sqlite
                /\ run' = [run EXCEPT !.events = Append(run.events, "insert"),
                              !.new_businesses = Append(run.new_businesses, KeyOf(run.document)),
                              !.i = run.i + 1, !.pc = "row"]
    /\ UNCHANGED <<mongodb_available, sqlite_available, unique_index, last,
                   predictorVars, csv_rows, retryVars>>

\* the process is killed in the middle of the batch: what it held in memory
\* is lost
Crash ==
    /\ run.pc \in {"row", "lookup", "parse", "merge", "insert"}
    /\ run' = [NoRun EXCEPT !.pc = "crashed", !.n = run.n, !.dry_run = run.dry_run,
                  !.flush = run.flush,
                  !.google_places_client = run.google_places_client]
    /\ UNCHANGED <<storeVars, predictorVars, csv_rows, retryVars>>

NextPipeline ==
    \/ StartRun
    \/ ProcessRow
    \/ Lookup
    \/ Parse
    \/ MergePlaceData
    \/ InsertAndReport
    \/ Crash

SpecPipeline == InitPipeline /\ [][NextPipeline]_vars

(***************************************************************************)
(* The retry policy as a state machine: a function decorated with retry is *)
(* called, and each step is one attempt of the loop of wrapper (the        *)
(* invocation, and after a failure the decision, the delay and the sleep). *)
(* wrapped holds the attempt under way, the exception of the last failure  *)
(* with its category, the delay slept after it, and how the call ended.    *)
(***************************************************************************)
InitRetry ==
    /\ mongodb_available = FALSE
    /\ sqlite_available = FALSE
    /\ unique_index = FALSE
    /\ mongo = <<>>
    /\ sqlite = <<>>
    /\ last = NoCall
    /\ collection = "none"
    /\ restaurants = <<>>
    /\ prediction = NoPrediction
    /\ csv_rows = <<>>
    /\ run = NoRun
    /\ wrapped = NoWrapped
    /\ limiter = NoLimiter

\* the decorated function is called: wrapper builds its RetryConfig and
\* enters the loop
CallWrapped ==
    /\ wrapped.status \in {"idle", "returned", "raised"}
    /\ \E config \in Configs :
           wrapped' = [NoWrapped EXCEPT !.status = "running", !.config = config,
                                        !.attempt = 1]
    /\ UNCHANGED <<storeVars, predictorVars, pipelineVars, limiter>>

\* one attempt: func is invoked; its value is returned, or its exception is
\* kept, and the loop goes on after the delay or ends with
\* "raise last_exception"
Attempt ==
    /\ wrapped.status = "running"
    /\ \E outcome \in Outcomes, u \in Draws :
           LET attempt == wrapped.attempt
               attempts == wrapped.config.attempts
               e == outcome.exception
           IN  IF outcome.ok
               THEN wrapped' = [wrapped EXCEPT !.status = "returned",
                                   !.invocations = wrapped.invocations + 1,
                                   !.result = outcome.value, !.delay = 0]
               ELSE wrapped' = [wrapped EXCEPT
                                   !.invocations = wrapped.invocations + 1,
                                   !.last_exception = e,
                                   !.category = categorize_error(e),
                                   !.delay = IF should_retry(e, attempt, attempts)
                                                /\ attempt < attempts
                                             THEN calculate_delay(attempt, wrapped.config, e, u)
                                             ELSE 0,
                                   !.attempt = IF continues(e, attempt, attempts)
                                               THEN attempt + 1 ELSE attempt,
                                   !.status = IF continues(e, attempt, attempts)
                                              THEN "running" ELSE "raised",
                                   !.raised = IF continues(e, attempt, attempts)
                                              THEN NoException ELSE e]
    /\ UNCHANGED <<storeVars, predictorVars, pipelineVars, limiter>>

NextRetry ==
    \/ CallWrapped
    \/ Attempt

SpecRetry == InitRetry /\ [][NextRetry]_vars

(***************************************************************************)
(* The rate limiter as a state machine: rate_limited makes the limiter of  *)
(* a function, then the calls of the function (first calls and the         *)
(* attempts of a retry alike) pass through wait_if_needed one after the    *)
(* other.  limiter holds the clock, and of the last call its arrival, the  *)
(* time it was held and the release of the call before it.                 *)
(***************************************************************************)
InitLimiter ==
    /\ mongodb_available = FALSE
    /\ sqlite_available = FALSE
    /\ unique_index = FALSE
    /\ mongo = <<>>
    /\ sqlite = <<>>
    /\ last = NoCall
    /\ collection = "none"
    /\ restaurants = <<>>
    /\ prediction = NoPrediction
    /\ csv_rows = <<>>
    /\ run = NoRun
    /\ wrapped = NoWrapped
    /\ limiter = NoLimiter

\* rate_limited( per_second ): the limiter of the decorated function
RateLimited ==
    /\ limiter.calls_per_second = 0
    /\ \E per_second \in {1, 2, 8} : limiter' = RateLimiter(per_second)
    /\ UNCHANGED <<storeVars, predictorVars, pipelineVars, wrapped>>

\* a call of the decorated function: limiter.wait_if_needed(), then func
LimitedCall ==
    /\ limiter.calls_per_second > 0
    /\ limiter.calls < MaxCalls
    /\ \E elapsed \in Elapsed, overrun \in Overruns :
           limiter' = wait_if_needed(limiter, limiter.time + elapsed, overrun)
    /\ UNCHANGED <<storeVars, predictorVars, pipelineVars, wrapped>>

NextLimiter ==
    \/ RateLimited
    \/ LimitedCall

SpecLimiter == InitLimiter /\ [][NextLimiter]_vars


(***************************************************************************)
(* Properties of the record store                                          *)
(***************************************************************************)
\* a record is live unless its deleted flag is set (True, stored as 1 in SQLite)
Live(d) == d.deleted \notin {Bool(TRUE), Num(1)}

NoTwoLive(coll) ==
    \A i, j \in 1..Len(coll) :
        (i # j /\ Live(coll[i]) /\ Live(coll[j])) => KeyOf(coll[i]) # KeyOf(coll[j])

\* what a filter of the supported language means for a relational row, where a
\* missing value is NULL and a boolean is 0 or 1
RowSatisfies(r, c) ==
    LET x == r[c.f]
        v == Adapt(c.v)
        eq == x = v
        cmp == x.k = "num" /\ v.k = "num"
    IN  CASE c.op = "eq" -> eq
          [] c.op = "$exists" -> (c.v = Bool(TRUE)) <=> (x # Null)
          [] c.op = "$ne" -> ~eq
          [] c.op = "$gte" -> cmp /\ x.n >= v.n
          [] c.op = "$lte" -> cmp /\ x.n <= v.n
          [] c.op = "$gt" -> cmp /\ x.n > v.n
          [] c.op = "$lt" -> cmp /\ x.n < v.n

RowMatches(r, query) == \A c \in query : RowSatisfies(r, c)

\* the relational table holds exactly the rows of the documents of the
\* collection, in the same order
Mirrored ==
    /\ Len(sqlite) = Len(mongo)
    /\ \A i \in 1..Len(mongo) : sqlite[i] = ToRow(mongo[i])

Max(a, b) == IF a >= b THEN a ELSE b

\* C1: after any sequence of inserts, neither backend holds two live records
\* with the same (business_name, address, business_type).
C1_NoTwoLiveRecordsPerKey == NoTwoLive(mongo) /\ NoTwoLive(sqlite)

\* C2: find consults the relational backend only when the document backend is
\* unreachable (flagged unavailable, or failing during the call); when the
\* document backend is reachable and answers with no document, find returns
\* the empty list whatever the relational backend holds.
C2_EmptyAnswerIsFinal ==
    last.op = "find" =>
        /\ (mongodb_available /\ ~last.mongoErr
              /\ mongo_find(mongo, last.query, last.limit) = <<>>)
           => (last.docs = <<>> /\ last.from = "mongo")
        /\ last.from = "sqlite" => (~mongodb_available \/ last.mongoErr)

\* C2 witness: MongoDB answered with no document while SQLite holds a match
C2_Witness ==
    /\ last.op = "find" /\ mongodb_available /\ ~last.mongoErr
    /\ sqlite_available /\ last.docs = <<>>
    /\ _find_sqlite_documents(sqlite, last.query, last.limit, FALSE).ret # <<>>

\* C3: with MongoDB unreachable and SQLite healthy, find returns exactly the
\* SQLite records that match the filter (at most limit of them when
\* limit > 0) and does not raise.
C3_FallbackReturnsMatching ==
    (last.op = "find" /\ ~mongodb_available /\ sqlite_available /\ ~last.sqliteErr) =>
        LET matching == SelectSeq(sqlite, LAMBDA r : RowMatches(r, last.query))
        IN  /\ ~last.raised
            /\ Range(last.docs) \subseteq {FromRow(r) : r \in Range(matching)}
            /\ Len(last.docs) = IF last.limit > 0 /\ Len(matching) > last.limit
                                THEN last.limit ELSE Len(matching)

\* C4: insert returns true exactly when the write to at least one backend
\* succeeded (the written record is then in that backend), and never raises.
C4_InsertTrueIffSomeWrite ==
    last.op = "insert" =>
        /\ ~last.raised
        /\ last.ret <=> (last.mongoWrote \/ last.sqliteWrote)
        /\ last.mongoWrote => \E i \in 1..Len(mongo) : mongo[i] = last.document
        /\ last.sqliteWrote => \E i \in 1..Len(sqlite) : sqlite[i] = ToRow(last.document)

\* C4 witness: the MongoDB write raised, the SQLite write succeeded
C4_Witness ==
    /\ last.op = "insert" /\ mongodb_available /\ last.mongoErr
    /\ ~last.mongoWrote /\ last.sqliteWrote /\ last.ret

\* C5: when SQLite is available, an insert of a business record that meets no
\* SQLite error leaves the record in the SQLite table, whatever happened to
\* the MongoDB write (succeeded, raised, skipped).
C5_MirrorAlwaysWritten ==
    (last.op = "insert" /\ sqlite_available /\ ~last.sqliteErr
        /\ last.document.business_name # Absent) =>
        /\ KeyOf(ToRow(last.document)) \in KeysOf(sqlite)
        /\ \E i \in 1..Len(sqlite) : sqlite[i] = ToRow(last.document)

\* C5 witness: the MongoDB write succeeded and the record is in SQLite too
C5_Witness ==
    /\ last.op = "insert" /\ sqlite_available /\ ~last.sqliteErr
    /\ last.mongoWrote /\ last.document.business_name # Absent
    /\ \E i \in 1..Len(sqlite) : sqlite[i] = ToRow(last.document)

\* C6: delete_many removes from each reachable backend exactly the records
\* that match the filter and leaves the others unchanged.
C6_DeleteExactlyMatching ==
    [][(Idle /\ last'.op = "delete") =>
        /\ (mongodb_available /\ ~last'.mongoErr)
           => mongo' = SelectSeq(mongo, LAMBDA d : ~MongoMatches(d, last'.query))
        /\ (sqlite_available /\ ~last'.sqliteErr)
           => sqlite' = SelectSeq(sqlite, LAMBDA r : ~RowMatches(r, last'.query))]_vars

\* C7: delete_many returns the larger of the number of documents deleted from
\* MongoDB and the number of rows deleted from SQLite.
C7_DeleteReturnsMax ==
    last.op = "delete" => last.count = Max(last.mongoDeleted, last.sqliteDeleted)

\* C8: whatever the availability of the backends and the errors of the
\* backend calls, insert, find, count and delete return normally; with both
\* backends unavailable they return false, the empty list, 0 and 0, and the
\* contents of the backends do not change.
C8_NeverRaisesAndDegrades ==
    /\ [](/\ ~last.raised
          /\ (~mongodb_available /\ ~sqlite_available) =>
                /\ last.op = "insert" => ~last.ret
                /\ last.op = "find" => last.docs = <<>>
                /\ last.op \in {"count", "delete"} => last.count = 0)
    /\ [][(~mongodb_available /\ ~sqlite_available) => UNCHANGED <<mongo, sqlite>>]_vars

\* C8 witness: delete_many called while both backends, each holding records,
\* are unavailable
C8_Witness ==
    /\ last.op = "delete" /\ ~mongodb_available /\ ~sqlite_available
    /\ mongo # <<>> /\ sqlite # <<>> /\ last.count = 0 /\ ~last.raised

\* C9: on backends that mirror each other, the SQLite find returns the
\* records with the same keys as the MongoDB find, for every supported filter.
C9_SameFindSemantics ==
    (last.op = "find" /\ Mirrored) =>
        KeysOf(_find_sqlite_documents(sqlite, last.query, last.limit, FALSE).ret)
            = KeysOf(mongo_find(mongo, last.query, last.limit))

\* C11: a structured field (a mapping or a list, empty ones included, or
\* null) written by the SQLite insert is read back by the SQLite find with
\* the same value.
C11_JsonRoundTrip ==
    (last.op = "insert" /\ last.sqliteWrote) =>
        LET found == _find_sqlite_documents(sqlite, {}, 0, FALSE).ret
        IN  /\ \E i \in 1..Len(sqlite) : sqlite[i] = ToRow(last.document)
            /\ \A i \in 1..Len(sqlite) :
                  sqlite[i] = ToRow(last.document) =>
                      \A f \in json_fields :
                          last.document[f] # Absent => found[i][f] = last.document[f]

\* C11 witness: a document with an empty list and an empty mapping was
\* written to SQLite, next to a row whose JSON columns are NULL
C11_Witness ==
    /\ last.op = "insert" /\ last.sqliteWrote
    /\ last.document.review_keywords = List(<<>>)
    /\ last.document.business_hours = Dict(<<>>)
    /\ \E i \in 1..Len(sqlite) :
          sqlite[i].business_hours = Null /\ sqlite[i].business_name # Null

\* C10: count(filter) equals the number of records find(filter, limit=0)
\* returns in the same state, for every filter and availability.
C10_CountAgreesWithFind ==
    last.op = "count" =>
        last.count = Len(find_documents(last.query, 0, last.mongoErr, last.sqliteErr).ret)

(***************************************************************************)
(* Properties of the pipeline                                              *)
(***************************************************************************)
\* the keys of the records a backend holds
Persisted(coll) == {KeyOf(coll[i]) : i \in {j \in 1..Len(coll) : Live(coll[j])}}

LiveCount(coll, k) == Cardinality({i \in 1..Len(coll) : Live(coll[i]) /\ KeyOf(coll[i]) = k})

\* C12: when the same input is processed again (without --flush), after a
\* completed or a crashed run, a business that a backend already held at the
\* start of the run is not reported as new and gets no further live record,
\* with MongoDB reachable as well as with SQLite alone.
C12_ReprocessingIdempotent ==
    (run.n >= 2 /\ ~run.flush /\ (mongodb_available \/ sqlite_available)) =>
        \A k \in Persisted(run.before.mongo) \cup Persisted(run.before.sqlite) :
            /\ k \notin Range(run.new_businesses)
            /\ LiveCount(mongo, k) <= LiveCount(run.before.mongo, k)
            /\ LiveCount(sqlite, k) <= LiveCount(run.before.sqlite, k)

(***************************************************************************)
(* Properties of the predictor                                             *)
(***************************************************************************)
\* a prediction has returned a triple
Predicted == prediction.op = "predict" /\ ~prediction.raised

\* the candidates find_similar_restaurants handed to predict_rating
Retained ==
    find_similar_restaurants(collection, restaurants, prediction.features,
                             prediction.bool_raises, prediction.find_raises).similar

CuisineMatches == Cardinality({i \in 1..Len(prediction.similar) : prediction.similar[i].cuisine_match})

WithinMiles(m) ==
    Cardinality({i \in 1..Len(prediction.similar) : prediction.similar[i].distance_miles <= m})

\* C13: with fewer than 3 retained candidates (0, 1 or 2), predict_rating
\* returns the rating 3.7, the confidence "Low - insufficient nearby data",
\* and the retained candidates as its third result.
C13_DefaultBelowThree ==
    (Predicted /\ Len(Retained) < 3) =>
        /\ prediction.rating = 37
        /\ prediction.confidence = "Low - insufficient nearby data"
        /\ prediction.similar = Retained

\* C13 witness: a prediction from two retained candidates
C13_Witness ==
    /\ Predicted /\ Len(Retained) = 2 /\ Len(prediction.similar) = 2
    /\ prediction.rating = 37

\* C14: the rating predict_rating returns is within [1.0, 5.0], also when
\* the stored ratings of the candidates are below 1.0 or above 5.0.
C14_RatingWithinBounds ==
    Predicted => (prediction.rating >= 10 /\ prediction.rating <= 50)

\* C14 witness: three or more candidates, all with a stored rating above 5.0
C14_Witness ==
    /\ Predicted /\ Len(prediction.similar) >= 3
    /\ \A i \in 1..Len(prediction.similar) : prediction.similar[i].rating > 50
    /\ prediction.rating = 50

\* scenario 1: target cuisine "Mexican", exactly 4 retained candidates, all
\* within 3 miles, 2 of them cuisine matches
Scenario1 ==
    /\ Predicted
    /\ prediction.features.cuisine_type = Str("Mexican")
    /\ Len(prediction.similar) = 4
    /\ WithinMiles(30) = 4
    /\ CuisineMatches = 2

\* C15 as stated: in scenario 1 predict_rating returns a "High" confidence.
C15_Scenario1High ==
    Scenario1 => prediction.confidence = "High - strong cuisine and proximity matches"

\* C15 amended: in scenario 1 predict_rating returns the confidence
\* "Medium - good local or cuisine data".
C15_Scenario1Medium ==
    Scenario1 => prediction.confidence = "Medium - good local or cuisine data"

\* C15 witness: scenario 1 has been predicted
C15_Witness == Scenario1 /\ prediction.rating >= 10

\* C16: with 3 or more candidates the confidence is that of the first rule
\* that matches: 3 cuisine matches and 2 within 5 miles give "High - strong
\* cuisine and proximity matches"; else 2 cuisine matches or 3 within 5 miles
\* give "Medium - good local or cuisine data"; else 5 candidates give
\* "Medium - sufficient nearby data"; else "Low - limited comparison data".
C16_ConfidenceRules ==
    (Predicted /\ Len(prediction.similar) >= 3) =>
        prediction.confidence =
            CASE CuisineMatches >= 3 /\ WithinMiles(50) >= 2 ->
                    "High - strong cuisine and proximity matches"
              [] ~(CuisineMatches >= 3 /\ WithinMiles(50) >= 2)
                    /\ (CuisineMatches >= 2 \/ WithinMiles(50) >= 3) ->
                    "Medium - good local or cuisine data"
              [] ~(CuisineMatches >= 3 /\ WithinMiles(50) >= 2)
                    /\ ~(CuisineMatches >= 2 \/ WithinMiles(50) >= 3)
                    /\ Len(prediction.similar) >= 5 ->
                    "Medium - sufficient nearby data"
              [] OTHER -> "Low - limited comparison data"

\* C16 witness: both the first and the second rule match, and the
\* confidence is "High"
C16_Witness ==
    /\ Predicted /\ Len(prediction.similar) >= 3
    /\ CuisineMatches >= 3 /\ WithinMiles(50) >= 3
    /\ prediction.confidence = "High - strong cuisine and proximity matches"

\* C17: every retained candidate is at most 7.0 miles from the target by
\* the distance computed again, and at most 5.0 miles unless its cuisine
\* equals the target's, cases ignored.
C17_RetainedWithinRadius ==
    Predicted =>
        \A i \in 1..Len(prediction.similar) :
            LET r == prediction.similar[i].name
                f == prediction.features
                d == calculate_distance(f.latitude, f.longitude, r.latitude.n, r.longitude.n)
                same_cuisine == /\ f.cuisine_type.k = "str" /\ r.cuisine_type.k = "str"
                                /\ Lower(f.cuisine_type.s) = Lower(r.cuisine_type.s)
            IN  d <= 70 /\ (d <= 50 \/ same_cuisine)

\* C17 witness: a candidate 6 miles away is retained for its cuisine, while
\* the store also holds restaurants that are not retained
C17_Witness ==
    /\ Predicted
    /\ \E i \in 1..Len(prediction.similar) : prediction.similar[i].distance_miles = 60
    /\ \E j \in 1..Len(restaurants) : restaurants[j] = OtherFar
    /\ \E j \in 1..Len(restaurants) : restaurants[j] = MexCorner

\* C18: when an exception occurs while the predictor queries or scores the
\* candidates, also after some candidates were scored, predict_rating
\* returns the default 3.7 with "Low - insufficient nearby data".
C18_ExceptionMeansNoCandidates ==
    (Predicted /\ (prediction.find_raises \/ prediction.loop_raised)) =>
        /\ prediction.rating = 37
        /\ prediction.confidence = "Low - insufficient nearby data"

\* C19: predict_rating returns a triple and propagates no exception, for
\* every store handle, store failure and candidate content.
C19_NeverPropagates == prediction.op = "predict" => ~prediction.raised

(***************************************************************************)
(* Order of the steps of the pipeline                                      *)
(***************************************************************************)
StepRank(e) ==
    CASE e = "lookup" -> 1 [] e = "predict" -> 2 [] e = "merge" -> 3 [] e = "insert" -> 4

Reported == run.pc = "row" /\ run.document # DocEmpty

\* the records of a key as the backends give them back
StoredAs(k) ==
    {d \in Range(mongo) : KeyOf(d) = k} \cup
    {FromRow(r) : r \in {x \in Range(sqlite) : KeyOf(x) = k}}

\* the place fields of a record are those of the place data
CarriesPlace(d, place_data) ==
    /\ d.google_rating = place_data.rating
    /\ d.business_hours = place_data.business_hours
    /\ d.review_keywords = place_data.review_keywords

\* every food business of the input was reported as new or was already held
\* by the document backend
AllProcessed ==
    \A i \in 1..Len(csv_rows) :
        is_food_business(csv_rows[i].business_type) =>
            \/ KeyOf(NewDocument(csv_rows[i])) \in Range(run.new_businesses)
            \/ KeyOf(NewDocument(csv_rows[i])) \in KeysOf(mongo)

\* C21: when the lookup gave place data for a new business (a prediction is
\* then always computed for it), the record that insert persisted carries
\* the place fields and the predicted rating of that place data.
C21_PredictionPersisted ==
    (Reported /\ run.place_data.found /\ ~run.dry_run) =>
        /\ StoredAs(KeyOf(run.document)) # {}
        /\ \A d \in StoredAs(KeyOf(run.document)) :
              /\ CarriesPlace(d, run.place_data)
              /\ d.ai_predicted_rating = run.place_data.ai_predicted_rating

\* C22: a lookup that gives nothing or raises does not end the batch: the
\* business is reported as new with the fields of its license row and,
\* outside a dry run, inserted with them into every reachable backend; the
\* run ends only after the last row, with every food business handled.
C22_FailedEnrichmentContinues ==
    /\ (Reported /\ run.answer \in {"nothing", "raises"}) =>
          /\ run.document = NewDocument(csv_rows[run.i - 1])
          /\ run.new_businesses[Len(run.new_businesses)] = KeyOf(run.document)
          /\ ~run.dry_run =>
                /\ mongodb_available => run.document \in Range(mongo)
                /\ sqlite_available => ToRow(run.document) \in Range(sqlite)
    /\ run.pc = "done" => (run.i > Len(csv_rows) /\ AllProcessed)

\* C22 witness: the lookup of the first business raised, the business was
\* inserted and reported, and a later row is still to be taken
C22_Witness ==
    /\ Reported /\ run.answer = "raises" /\ ~run.dry_run
    /\ run.i = 2 /\ Len(csv_rows) = 2
    /\ run.document \in Range(mongo)

\* C23: within one run no business is reported as new twice, whatever the
\* rows of the input and the mode.
C23_ExactlyOncePerBusiness ==
    \A i, j \in 1..Len(run.new_businesses) :
        i # j => run.new_businesses[i] # run.new_businesses[j]

\* C29: in a dry run, with or without --flush, both backends hold during and
\* after the run what they held when it started, and at the end of the run
\* every food business of the input that the store did not hold has been
\* reported as new.
C29_DryRunModifiesNothing ==
    (run.dry_run /\ run.pc \in {"row", "lookup", "parse", "merge", "insert", "done"}) =>
        /\ mongo = run.before.mongo
        /\ sqlite = run.before.sqlite
        /\ run.pc = "done" => AllProcessed

\* C29 witness: a dry run with --flush over a store that holds a record has
\* ended with a business reported as new
C29_Witness ==
    /\ run.dry_run /\ run.flush /\ run.pc = "done"
    /\ mongo # <<>> /\ sqlite # <<>>
    /\ run.new_businesses # <<>>

(***************************************************************************)
(* Properties of the retry policy and of the rate limiter                  *)
(***************************************************************************)
\* the indicators of the taxonomy: a status code or a phrase
Indicators ==
    [rate_limited |-> {"429", "too many requests"},
     authentication |-> {"401"},
     permission_denied |-> {"403", "request_denied"},
     not_found |-> {"404", "no results"},
     temporary |-> {"500", "502", "503"},
     network |-> {"connection", "timeout", "dns"},
     quota_exceeded |-> {"quota"}]

Carries(exception, category) == exception.terms \cap Indicators[category] # {}

\* the attempt that has just failed is the one the delay was computed for
Slept == wrapped.delay > 0

\* C24: after a failure that carries 401, 403 / REQUEST_DENIED or 404 /
\* no results, the wrapped call has ended: the exception is re-raised, no
\* delay was slept and no further invocation follows.
C24_NoRetryAfterDenied ==
    (\E c \in {"authentication", "permission_denied", "not_found"} :
         Carries(wrapped.last_exception, c)) =>
        /\ wrapped.status = "raised"
        /\ wrapped.raised = wrapped.last_exception
        /\ wrapped.delay = 0

\* C25: the delay slept before a retry is at least 30 s after a
\* rate-limited failure, at least 60 s after a quota failure, at most 10 s
\* after a network failure, and at most max_delay, with and without jitter.
C25_DelayWithinCategoryBounds ==
    Slept =>
        /\ wrapped.category = "rate_limited" => wrapped.delay >= 30000
        /\ wrapped.category = "quota_exceeded" => wrapped.delay >= 60000
        /\ wrapped.category = "network" => wrapped.delay <= 10000
        /\ wrapped.delay <= wrapped.config.max_delay

\* C26: the category of a failure is the one whose indicator the exception
\* carries, whatever its type, and unknown when it carries none.
C26_TaxonomyFollowed ==
    wrapped.last_exception # NoException =>
        /\ \A c \in DOMAIN Indicators :
              Carries(wrapped.last_exception, c) => wrapped.category = c
        /\ wrapped.last_exception.terms = {} => wrapped.category = "unknown"

\* C27: the wrapped function is invoked at most attempts times; a call that
\* returned gives the value of its last invocation, which is the only one
\* that succeeded; a call that ended otherwise re-raises the exception of
\* its last invocation.
C27_RetryTerminates ==
    /\ wrapped.invocations <= wrapped.config.attempts
    /\ wrapped.status = "running" => wrapped.invocations = wrapped.attempt - 1
    /\ wrapped.status = "returned" =>
          /\ wrapped.invocations = wrapped.attempt
          /\ wrapped.result \in {"place_id", "None"}
          /\ wrapped.raised = NoException
    /\ wrapped.status = "raised" =>
          /\ wrapped.invocations = wrapped.attempt
          /\ wrapped.raised = wrapped.last_exception
          /\ wrapped.raised \in Exceptions
          /\ wrapped.result = "none"

\* C27 witness: all the attempts of a call failed and the last exception
\* was re-raised
C27_Witness ==
    /\ wrapped.status = "raised"
    /\ wrapped.config.attempts = MaxAttempts
    /\ wrapped.invocations = MaxAttempts
    /\ wrapped.raised = NetworkTimeout

\* C28: a call is released at least min_interval after the call before it
\* was released, and a call that arrives min_interval or more after that
\* release is not held.
C28_MinimumInterval ==
    limiter.calls >= 2 =>
        /\ limiter.last_call_time - limiter.previous >= limiter.min_interval
        /\ limiter.current_time - limiter.previous >= limiter.min_interval =>
              (limiter.slept = 0 /\ limiter.last_call_time = limiter.current_time)

\* C28 witness: a first delay of a retry (0.9 s) is shorter than the
\* interval of one call per second, and the attempt was held for the rest
C28_Witness ==
    /\ limiter.calls >= 2
    /\ limiter.calls_per_second = 1
    /\ limiter.current_time - limiter.previous = 900
    /\ limiter.slept = 100

(***************************************************************************)
(* Confidence levels that can be returned                                  *)
(***************************************************************************)
\* largest number of retained candidates the confidence rules are taken over
MaxCandidates == 8

\* the counts that lists of 3 to MaxCandidates retained candidates can
\* give when every candidate that is no cuisine match is within 5 miles
CountsOfRetained ==
    {c \in [cuisine_matches : 0..MaxCandidates, proximity_matches : 0..MaxCandidates,
            total : 3..MaxCandidates] :
        /\ c.cuisine_matches <= c.total
        /\ c.proximity_matches <= c.total
        /\ c.proximity_matches >= c.total - c.cuisine_matches}

\* C30: every retained candidate that is no cuisine match is within 5
\* miles; hence, for the lists of candidates of the store and for every
\* count of up to MaxCandidates candidates, predict_rating never gives
\* "Medium - sufficient nearby data", and gives "Low - limited comparison
\* data" only for exactly 3 candidates: one cuisine match farther than 5
\* miles and two others.
C30_ReachableConfidence ==
    Predicted =>
          /\ \A c \in CountsOfRetained :
                LET confidence ==
                        confidence_level(c.cuisine_matches, c.proximity_matches, c.total)
                IN  /\ confidence # "Medium - sufficient nearby data"
                    /\ confidence = "Low - limited comparison data" =>
                          (c.total = 3 /\ c.cuisine_matches = 1 /\ c.proximity_matches = 2)
          /\ \A i \in 1..Len(prediction.similar) :
                ~prediction.similar[i].cuisine_match =>
                    prediction.similar[i].distance_miles <= max_proximity_miles
          /\ prediction.confidence # "Medium - sufficient nearby data"
          /\ prediction.confidence = "Low - limited comparison data" =>
                /\ Len(prediction.similar) = 3
                /\ CuisineMatches = 1
                /\ \A i \in 1..3 :
                      prediction.similar[i].cuisine_match =>
                          prediction.similar[i].distance_miles > max_proximity_miles
                /\ WithinMiles(max_proximity_miles) = 2

\* C30 witness: a cuisine match 6 miles away and two other restaurants 2
\* miles away give "Low - limited comparison data"
C30_Witness ==
    /\ Predicted
    /\ prediction.confidence = "Low - limited comparison data"
    /\ Len(prediction.similar) = 3
    /\ \E i \in 1..3 : prediction.similar[i].name = MexFar
    /\ Cardinality({i \in 1..3 : prediction.similar[i].name = ThaiNear}) = 2

====
